---- MODULE Spec2Model ----
(***************************************************************************)
(* Fan-speed controller RX730.py: a one-time readiness check followed by   *)
(* an endless sample -> decide -> actuate loop over the ipmitool           *)
(* transport.  The module models main(), check_ipmitool_installed(),       *)
(* get_temperature(), calculate_fan_speed() and set_fan_speed().           *)
(*                                                                         *)
(* Python's None is the empty tuple and a present value v is <<v>>.        *)
(* Temperatures are the floats float(\d+), i.e. non-negative whole         *)
(* numbers, so gradients are whole numbers and are modelled as integers.   *)
(***************************************************************************)
EXTENDS Integers, Sequences, FiniteSets, TLC

VARIABLES
    pc,              \* position of the single thread of control
    present,         \* outcome of "ipmitool --version"
    installed,       \* outcome of "apt-get install -y ipmitool"
    exit_code,       \* None while the process runs, <<status>> once it ended
    last_temp_diff,  \* the module-level global
    temp_diff,       \* main's local: the value get_temperature returned
    reading,         \* get_temperature's locals at its return
    speed,           \* main's local: the value calculate_fan_speed returned
    policy,          \* calculate_fan_speed's locals at its return
    cmds,            \* ipmitool commands issued in the current tick, in order
    any_cmd,         \* history: some ipmitool command was issued in this run
    last_before,     \* history: last_temp_diff when the current tick began
    prev_read,       \* history: gradient of the latest successful read of an earlier tick
    scen_on,         \* history: the ticks so far read a prefix of Scenario
    scen_acts,       \* history: per tick of that prefix, whether it actuated
    response,        \* what the transport returned to the sensor query (kept in ParseSpec only)
    stale,           \* history: gradient whose actuation failed, while no read differed from it
    device_duty      \* the chassis: duty cycle of the latest duty-set command that succeeded

vars == <<pc, present, installed, exit_code, last_temp_diff, temp_diff, reading,
          speed, policy, cmds, any_cmd, last_before, prev_read, scen_on, scen_acts,
          response, stale, device_duty>>

None == <<>>
Some(v) == <<v>>

-----------------------------------------------------------------------------
(* Configuration and bounds *)

MIN_RPM == 0
MAX_RPM == 18000

\* at most this many lines in one sensor response
MaxLines == 3
\* the policy is exercised on every whole gradient in -MaxGradient..MaxGradient
MaxGradient == 30
\* temperatures a sensor line may carry
Temps == {20, 25, 30, 32, 35, 37}

-----------------------------------------------------------------------------
(* Sensor Reader: get_temperature *)

\* re.search(r'\| (\d+) degrees C', line): no match, or the matched number
LineValues == {None} \cup {Some(t) : t \in Temps}

\* a line: does it contain "Inlet Temp", does it contain "Exhaust Temp",
\* and what the value pattern finds in it
Lines == [inlet : BOOLEAN, exhaust : BOOLEAN, value : LineValues]

Outputs == UNION {[1..n -> Lines] : n \in 0..MaxLines}

\* what subprocess.check_output does: raises, or returns the decoded output
SensorResponses ==
    {[error |-> TRUE, output |-> <<>>]} \cup {[error |-> FALSE, output |-> o] : o \in Outputs}

RECURSIVE ScanLinesFirstMatch(_, _, _)
ScanLinesFirstMatch(lines, inlet_temp, exhaust_temp) ==
    IF Len(lines) = 0
    THEN [inlet_temp |-> inlet_temp, exhaust_temp |-> exhaust_temp]
    ELSE LET line == lines[1]
             rest == [i \in 1..(Len(lines) - 1) |-> lines[i + 1]]
         IN  IF line.inlet
             THEN ScanLinesFirstMatch(rest,
                      IF line.value # None /\ inlet_temp = None THEN line.value ELSE inlet_temp,
                      exhaust_temp)
             ELSE IF line.exhaust
             THEN ScanLinesFirstMatch(rest, inlet_temp,
                      IF line.value # None /\ exhaust_temp = None THEN line.value ELSE exhaust_temp)
             ELSE ScanLinesFirstMatch(rest, inlet_temp, exhaust_temp)

\* the for loop over the lines: the if/elif prefers the inlet label, a label
\* line without a parseable value leaves the variable as it was
RECURSIVE ScanLines(_, _, _)
ScanLines(lines, inlet_temp, exhaust_temp) ==
    IF Len(lines) = 0
    THEN [inlet_temp |-> inlet_temp, exhaust_temp |-> exhaust_temp]
    ELSE LET line == lines[1]
             rest == [i \in 1..(Len(lines) - 1) |-> lines[i + 1]]
         IN  IF line.inlet
             THEN ScanLines(rest, IF line.value # None THEN line.value ELSE inlet_temp,
                            exhaust_temp)
             ELSE IF line.exhaust
             THEN ScanLines(rest, inlet_temp,
                            IF line.value # None THEN line.value ELSE exhaust_temp)
             ELSE ScanLines(rest, inlet_temp, exhaust_temp)

GetTemperatureLocals(resp) ==
    IF resp.error THEN [inlet_temp |-> None, exhaust_temp |-> None]
    ELSE ScanLines(resp.output, None, None)

get_temperature_or(resp) ==
    LET s == GetTemperatureLocals(resp)
        i == IF s.inlet_temp # None THEN s.inlet_temp[1] ELSE 0
        o == IF s.exhaust_temp # None THEN s.exhaust_temp[1] ELSE 0
    IN  IF ~resp.error /\ (s.inlet_temp # None \/ s.exhaust_temp # None)
        THEN Some(o - i)
        ELSE None

get_temperature_swapped(resp) ==
    LET s == GetTemperatureLocals(resp)
    IN  IF ~resp.error /\ s.inlet_temp # None /\ s.exhaust_temp # None
        THEN Some(s.inlet_temp[1] - s.exhaust_temp[1])
        ELSE None

get_temperature(resp) ==
    LET s == GetTemperatureLocals(resp)
    IN  IF ~resp.error /\ s.inlet_temp # None /\ s.exhaust_temp # None
        THEN Some(s.exhaust_temp[1] - s.inlet_temp[1])
        ELSE None

SensorReading(resp) ==
    [error        |-> resp.error,
     inlet_temp   |-> GetTemperatureLocals(resp).inlet_temp,
     exhaust_temp |-> GetTemperatureLocals(resp).exhaust_temp,
     temp_diff    |-> get_temperature(resp)]

\* every way one call of get_temperature can end
SensorOutcomes == {SensorReading(r) : r \in SensorResponses}

\* no sensor query has been made
NoResponse == [error |-> FALSE, output |-> <<>>]

NoReading == [error |-> FALSE, inlet_temp |-> None, exhaust_temp |-> None, temp_diff |-> None]

-----------------------------------------------------------------------------
(* Speed Policy: calculate_fan_speed *)

PolicyBranchOffByOne(td) ==
    IF td <= 10 THEN "lt10"
    ELSE IF 10 <= td /\ td < 15 THEN "mid"
    ELSE IF td > 15 THEN "gt15"
    ELSE "fallback"

\* which arm of the if/elif/else chain runs
PolicyBranch(td) ==
    IF td < 10 THEN "lt10"
    ELSE IF 10 <= td /\ td <= 15 THEN "mid"
    ELSE IF td > 15 THEN "gt15"
    ELSE "fallback"

\* speed_percentage as each arm assigns it
BranchPercentage(branch) ==
    CASE branch = "lt10" -> 30
      [] branch = "mid" -> 40
      [] branch = "gt15" -> 100
      [] branch = "fallback" -> 40

PolicyLocals(td) ==
    [branch |-> PolicyBranch(td), speed_percentage |-> BranchPercentage(PolicyBranch(td))]

\* MIN_RPM + (MAX_RPM - MIN_RPM) * (speed_percentage / 100); the float
\* product is exact for the percentages the arms assign (5400.0, 7200.0, 18000.0)
calculate_fan_speed_floordiv(td) ==
    MIN_RPM + (MAX_RPM - MIN_RPM) * (PolicyLocals(td).speed_percentage \div 100)

calculate_fan_speed(td) ==
    MIN_RPM + ((MAX_RPM - MIN_RPM) * PolicyLocals(td).speed_percentage) \div 100

-----------------------------------------------------------------------------
(* Actuator: set_fan_speed *)

Max(a, b) == IF a >= b THEN a ELSE b
Min(a, b) == IF a <= b THEN a ELSE b

\* (speed - MIN_RPM) / (MAX_RPM - MIN_RPM) * 100, before the clamp; the
\* float quotient is exact for the speeds the policy returns (30.0, 40.0, 100.0)
RawPercentage(s) == ((s - MIN_RPM) * 100) \div (MAX_RPM - MIN_RPM)

\* max(0, min(100, speed_percentage)), then int()
SpeedPercentage(s) == Max(0, Min(100, RawPercentage(s)))

HexDigits == <<"0", "1", "2", "3", "4", "5", "6", "7", "8", "9", "a", "b", "c", "d", "e", "f">>

\* the digits of n in base 16, most significant first
RECURSIVE HexOf(_)
HexOf(n) == IF n < 16 THEN <<HexDigits[n + 1]>> ELSE Append(HexOf(n \div 16), HexDigits[(n % 16) + 1])

\* "{:02x}".format(n): lower-case hexadecimal, zero-padded to two digits
Hex02(n) == IF n < 16 THEN <<"0">> \o HexOf(n) ELSE HexOf(n)

SensorCmd(ok) == [cmd |-> "sensor", arg |-> 0, ok |-> ok]
ModeCmd(ok) == [cmd |-> "mode", arg |-> 0, ok |-> ok]
DutyCmd(pct, ok) == [cmd |-> "duty", arg |-> pct, hex |-> Hex02(pct), ok |-> ok]

-----------------------------------------------------------------------------
(* Control Loop: main *)

ShouldActuateAlways(td, last) == TRUE

ShouldActuateWhenUnset(td, last) == last = None

\* last_temp_diff is None or temp_diff != last_temp_diff
ShouldActuate(td, last) == last = None \/ td # last

NextLastTempDiffOnSuccess(td, last, ok) == IF ok THEN td ELSE last

\* last_temp_diff = temp_diff, run after set_fan_speed returned, whatever it met
NextLastTempDiff(td, last, ok) == td

InstallResultTrue(ok) == TRUE

\* the value check_ipmitool_installed returns once the installation ran
InstallResult(ok) == ok

\* main returns and the script ends: the interpreter's exit status
ExitStatusOnReturn == 0

InLoop == pc \in {"read", "decide", "mode_set", "duty_set", "sleep"}

Init ==
    /\ pc = "check"
    /\ present = "unknown"
    /\ installed = "notrun"
    /\ exit_code = None
    /\ last_temp_diff = None
    /\ temp_diff = None
    /\ reading = NoReading
    /\ speed = None
    /\ policy = None
    /\ cmds = <<>>
    /\ any_cmd = FALSE
    /\ last_before = None
    /\ prev_read = None
    /\ scen_on = TRUE
    /\ scen_acts = <<>>
    /\ response = NoResponse
    /\ stale = None
    /\ device_duty = None

\* subprocess.run("ipmitool --version", check=True)
CheckPresence ==
    /\ pc = "check"
    /\ \E ok \in BOOLEAN :
         /\ present' = IF ok THEN "ok" ELSE "fail"
         /\ pc' = IF ok THEN "read" ELSE "install"
    /\ UNCHANGED <<installed, exit_code, last_temp_diff, temp_diff, reading, speed, policy,
                   cmds, any_cmd, last_before, prev_read, scen_on, scen_acts, response, stale, device_duty>>

\* subprocess.run("sudo apt-get install -y ipmitool", check=True), and main's
\* "if not check_ipmitool_installed(): return"
Install ==
    /\ pc = "install"
    /\ \E ok \in BOOLEAN :
         /\ installed' = IF ok THEN "ok" ELSE "fail"
         /\ IF InstallResult(ok)
            THEN pc' = "read" /\ exit_code' = exit_code
            ELSE pc' = "exited" /\ exit_code' = Some(ExitStatusOnReturn)
    /\ UNCHANGED <<present, last_temp_diff, temp_diff, reading, speed, policy,
                   cmds, any_cmd, last_before, prev_read, scen_on, scen_acts, response, stale, device_duty>>

SensorQueryUncaught ==
    /\ pc = "read"
    /\ \E r \in SensorOutcomes :
         /\ reading' = r
         /\ temp_diff' = r.temp_diff
         /\ cmds' = Append(cmds, SensorCmd(~r.error))
         /\ IF r.error
            THEN pc' = "exited" /\ exit_code' = Some(1)
            ELSE pc' = "decide" /\ exit_code' = exit_code
    /\ any_cmd' = TRUE
    /\ UNCHANGED <<present, installed, last_temp_diff, speed, policy,
                   last_before, prev_read, scen_on, scen_acts, response, stale, device_duty>>

\* temp_diff = get_temperature()
SensorQuery ==
    /\ pc = "read"
    /\ \E r \in SensorOutcomes :
         /\ reading' = r
         /\ temp_diff' = r.temp_diff
         /\ cmds' = Append(cmds, SensorCmd(~r.error))
    /\ any_cmd' = TRUE
    /\ pc' = "decide"
    /\ UNCHANGED <<present, installed, exit_code, last_temp_diff, speed, policy,
                   last_before, prev_read, scen_on, scen_acts, response, stale, device_duty>>

DecideDedented ==
    /\ pc = "decide"
    /\ IF temp_diff # None /\ ShouldActuate(temp_diff, last_temp_diff)
       THEN /\ speed' = Some(calculate_fan_speed(temp_diff[1]))
            /\ policy' = PolicyLocals(temp_diff[1])
            /\ pc' = "mode_set"
            /\ UNCHANGED last_temp_diff
       ELSE /\ pc' = "sleep"
            /\ last_temp_diff' = temp_diff
            /\ UNCHANGED <<speed, policy>>
    /\ UNCHANGED <<present, installed, exit_code, temp_diff, reading,
                   cmds, any_cmd, last_before, prev_read, scen_on, scen_acts, response, stale, device_duty>>

\* the two ifs of the loop body and speed = calculate_fan_speed(temp_diff)
Decide ==
    /\ pc = "decide"
    /\ IF temp_diff # None /\ ShouldActuate(temp_diff, last_temp_diff)
       THEN /\ speed' = Some(calculate_fan_speed(temp_diff[1]))
            /\ policy' = PolicyLocals(temp_diff[1])
            /\ pc' = "mode_set"
       ELSE /\ pc' = "sleep"
            /\ UNCHANGED <<speed, policy>>
    /\ UNCHANGED <<present, installed, exit_code, last_temp_diff, temp_diff, reading,
                   cmds, any_cmd, last_before, prev_read, scen_on, scen_acts, response, stale, device_duty>>

ModeSetSkipped ==
    /\ pc = "mode_set"
    /\ IF last_temp_diff = None
       THEN \E ok \in BOOLEAN :
              /\ cmds' = Append(cmds, ModeCmd(ok))
              /\ IF ok
                 THEN pc' = "duty_set" /\ UNCHANGED last_temp_diff
                 ELSE /\ pc' = "sleep"
                      /\ last_temp_diff' = NextLastTempDiff(temp_diff, last_temp_diff, FALSE)
       ELSE pc' = "duty_set" /\ UNCHANGED <<cmds, last_temp_diff>>
    /\ UNCHANGED <<present, installed, exit_code, temp_diff, reading, speed, policy,
                   any_cmd, last_before, prev_read, scen_on, scen_acts, response, stale, device_duty>>

ModeSetUngated ==
    /\ pc = "mode_set"
    /\ \E ok \in BOOLEAN : cmds' = Append(cmds, ModeCmd(ok))
    /\ pc' = "duty_set"
    /\ UNCHANGED <<present, installed, exit_code, last_temp_diff, temp_diff, reading, speed,
                   policy, any_cmd, last_before, prev_read, scen_on, scen_acts, response, stale, device_duty>>

\* set_fan_speed up to the manual-mode command; when it raises, the except
\* clause logs, set_fan_speed returns and main assigns last_temp_diff
ModeSet ==
    /\ pc = "mode_set"
    /\ \E ok \in BOOLEAN :
         /\ cmds' = Append(cmds, ModeCmd(ok))
         /\ IF ok
            THEN pc' = "duty_set" /\ UNCHANGED last_temp_diff
            ELSE /\ pc' = "sleep"
                 /\ last_temp_diff' = NextLastTempDiff(temp_diff, last_temp_diff, FALSE)
    /\ UNCHANGED <<present, installed, exit_code, temp_diff, reading, speed, policy,
                   any_cmd, last_before, prev_read, scen_on, scen_acts, response, stale, device_duty>>

DutySetRetry ==
    /\ pc = "duty_set"
    /\ \E ok \in BOOLEAN :
         /\ cmds' = Append(cmds, DutyCmd(SpeedPercentage(speed[1]), ok))
         /\ device_duty' = IF ok THEN Some(SpeedPercentage(speed[1])) ELSE device_duty
         /\ IF ok \/ Len(cmds) >= 3
            THEN /\ last_temp_diff' = NextLastTempDiff(temp_diff, last_temp_diff, ok)
                 /\ pc' = "sleep"
            ELSE UNCHANGED <<pc, last_temp_diff>>
    /\ UNCHANGED <<present, installed, exit_code, temp_diff, reading, speed, policy,
                   any_cmd, last_before, prev_read, scen_on, scen_acts, response, stale>>

\* the duty-set command, the return of set_fan_speed (through the except
\* clause when the command raised) and main's last_temp_diff = temp_diff
DutySet ==
    /\ pc = "duty_set"
    /\ \E ok \in BOOLEAN :
         /\ cmds' = Append(cmds, DutyCmd(SpeedPercentage(speed[1]), ok))
         /\ last_temp_diff' = NextLastTempDiff(temp_diff, last_temp_diff, ok)
         /\ device_duty' = IF ok THEN Some(SpeedPercentage(speed[1])) ELSE device_duty
    /\ pc' = "sleep"
    /\ UNCHANGED <<present, installed, exit_code, temp_diff, reading, speed, policy,
                   any_cmd, last_before, prev_read, scen_on, scen_acts, response, stale>>

\* the tick called set_fan_speed
Actuated == \E i \in 1..Len(cmds) : cmds[i].cmd \in {"mode", "duty"}

ModeIssued == \E i \in 1..Len(cmds) : cmds[i].cmd = "mode"
DutyIssued == \E i \in 1..Len(cmds) : cmds[i].cmd = "duty"
ModeFailed == \E i \in 1..Len(cmds) : cmds[i].cmd = "mode" /\ ~cmds[i].ok
ActuatorFailed == \E i \in 1..Len(cmds) : cmds[i].cmd \in {"mode", "duty"} /\ ~cmds[i].ok
ActuatorSucceeded ==
    /\ \E i \in 1..Len(cmds) : cmds[i].cmd = "mode" /\ cmds[i].ok
    /\ \E i \in 1..Len(cmds) : cmds[i].cmd = "duty" /\ cmds[i].ok

\* gradients of the leading ticks the scenario history follows
Scenario == <<5, 5, 12>>

\* time.sleep(60); the next iteration starts with fresh locals
Sleep ==
    /\ pc = "sleep"
    /\ pc' = "read"
    /\ temp_diff' = None
    /\ reading' = NoReading
    /\ speed' = None
    /\ policy' = None
    /\ cmds' = <<>>
    /\ last_before' = last_temp_diff
    /\ prev_read' = IF temp_diff # None THEN temp_diff ELSE prev_read
    /\ IF scen_on /\ Len(scen_acts) < Len(Scenario)
       THEN IF temp_diff = Some(Scenario[Len(scen_acts) + 1])
            THEN scen_acts' = Append(scen_acts, Actuated) /\ scen_on' = scen_on
            ELSE scen_acts' = <<>> /\ scen_on' = FALSE
       ELSE UNCHANGED <<scen_on, scen_acts>>
    /\ stale' = IF ActuatorFailed THEN temp_diff
                ELSE IF temp_diff # None /\ temp_diff # stale THEN None
                ELSE stale
    /\ UNCHANGED <<present, installed, exit_code, last_temp_diff, any_cmd, response, device_duty>>

Next ==
    \/ CheckPresence
    \/ Install
    \/ SensorQuery
    \/ Decide
    \/ ModeSet
    \/ DutySet
    \/ Sleep

Spec == Init /\ [][Next]_vars

\* every call returns, so the thread always takes its next step
FairSpec == Spec /\ WF_vars(Next)

-----------------------------------------------------------------------------
(* The speed policy on its own, applied to every gradient of the range *)

PolicyInit ==
    /\ pc = "policy"
    /\ temp_diff \in {Some(g) : g \in (0 - MaxGradient)..MaxGradient}
    /\ present = "ok"
    /\ installed = "notrun"
    /\ exit_code = None
    /\ last_temp_diff = None
    /\ reading = NoReading
    /\ speed = None
    /\ policy = None
    /\ cmds = <<>>
    /\ any_cmd = FALSE
    /\ last_before = None
    /\ prev_read = None
    /\ scen_on = FALSE
    /\ scen_acts = <<>>
    /\ response = NoResponse
    /\ stale = None
    /\ device_duty = None

PolicyApply ==
    /\ pc = "policy"
    /\ speed' = Some(calculate_fan_speed(temp_diff[1]))
    /\ policy' = PolicyLocals(temp_diff[1])
    /\ pc' = "policy_done"
    /\ UNCHANGED <<present, installed, exit_code, last_temp_diff, temp_diff, reading,
                   cmds, any_cmd, last_before, prev_read, scen_on, scen_acts, response, stale, device_duty>>

PolicyNext == PolicyApply

PolicySpec == PolicyInit /\ [][PolicyNext]_vars

-----------------------------------------------------------------------------
(* The sensor reader on its own, applied to every response of the bounds *)

ParseInit ==
    /\ pc = "parse"
    /\ response \in SensorResponses
    /\ present = "ok"
    /\ installed = "notrun"
    /\ exit_code = None
    /\ last_temp_diff = None
    /\ temp_diff = None
    /\ reading = NoReading
    /\ speed = None
    /\ policy = None
    /\ cmds = <<>>
    /\ any_cmd = FALSE
    /\ last_before = None
    /\ prev_read = None
    /\ scen_on = FALSE
    /\ scen_acts = <<>>
    /\ stale = None
    /\ device_duty = None

ParseApply ==
    /\ pc = "parse"
    /\ reading' = SensorReading(response)
    /\ temp_diff' = get_temperature(response)
    /\ pc' = "parsed"
    /\ UNCHANGED <<present, installed, exit_code, last_temp_diff, speed, policy, cmds, any_cmd,
                   last_before, prev_read, scen_on, scen_acts, response, stale, device_duty>>

ParseNext == ParseApply

ParseSpec == ParseInit /\ [][ParseNext]_vars

-----------------------------------------------------------------------------
(* Properties *)

\* the tick's call of get_temperature has returned without a gradient's inputs
SensorFailed ==
    /\ Len(cmds) >= 1
    /\ reading.error \/ reading.inlet_temp = None \/ reading.exhaust_temp = None

\* C1: a tick actuates only if its sensor read returned a gradient and that
\* gradient differs from last_temp_diff as the tick found it (or that was
\* unset); a tick whose gradient equals the gradient of the previous
\* successful read issues no actuation command.
C1_ActuationOnlyOnChange ==
    /\ Actuated =>
         /\ cmds[1].cmd = "sensor" /\ cmds[1].ok
         /\ temp_diff # None
         /\ temp_diff = reading.temp_diff
         /\ last_before = None \/ temp_diff # last_before
    /\ (InLoop /\ temp_diff # None /\ temp_diff = prev_read) => ~Actuated

C1_Witness ==
    pc = "sleep" /\ temp_diff # None /\ temp_diff = prev_read /\ ~Actuated

\* C2: for every whole gradient of the range, negative ones included,
\* calculate_fan_speed chooses 30 below 10, 40 from 10 to 15 (both ends) and
\* 100 above 15, never runs its else arm, and every gradient the sensor
\* reader can return lies in that range.
C2_PolicyTable ==
    /\ \A r \in SensorOutcomes :
         r.temp_diff # None =>
           r.temp_diff[1] \in (0 - MaxGradient)..MaxGradient
    /\ pc = "policy_done" =>
         LET g == temp_diff[1]
             pct == policy.speed_percentage
         IN  /\ g < 10 => pct = 30
             /\ (10 <= g /\ g <= 15) => pct = 40
             /\ g > 15 => pct = 100
             /\ pct \in {30, 40, 100}
             /\ policy.branch # "fallback"
             /\ speed = Some(MIN_RPM + ((MAX_RPM - MIN_RPM) \div 100) * pct)

C2_Witness ==
    pc = "policy_done" /\ temp_diff = Some(15) /\ policy.speed_percentage = 40

\* C3 as stated: the ticks reading 5, 5, 12 from the initial state actuate
\* exactly once, on the tick that reads 12.
C3_OneActuation ==
    (scen_on /\ Len(scen_acts) = Len(Scenario)) => scen_acts = <<FALSE, FALSE, TRUE>>

\* C3 amended: the ticks reading 5, 5, 12 from the initial state actuate
\* exactly twice: on the first tick (last_temp_diff unset) and on the tick
\* that reads 12, not on the second tick.
C3_TwoActuations ==
    scen_on => scen_acts = SubSeq(<<TRUE, FALSE, TRUE>>, 1, Len(scen_acts))

C3_Witness == scen_on /\ Len(scen_acts) = Len(Scenario)

\* C4: a tick whose sensor read fails (transport error, inlet missing or
\* outlet missing) gets None from get_temperature, issues no actuation
\* command and leaves last_temp_diff as the tick found it.
C4_FailedReadNoEffect ==
    (InLoop /\ SensorFailed) =>
        /\ temp_diff = None
        /\ ~Actuated
        /\ last_temp_diff = last_before

C4_Witness ==
    /\ pc = "sleep"
    /\ SensorFailed
    /\ ~reading.error
    /\ reading.inlet_temp # None
    /\ last_before # None

\* C5: a tick that read a changed gradient and whose actuator failed (mode-set
\* or duty-set) still ends with last_temp_diff set to that gradient.
C5_FailedActuationStillRecorded ==
    (pc = "sleep" /\ ActuatorFailed) =>
        /\ temp_diff # None
        /\ last_temp_diff = temp_diff

C5_Witness ==
    /\ pc = "sleep"
    /\ ModeFailed
    /\ last_before # None
    /\ last_temp_diff # last_before

\* C6 as stated: last_temp_diff is unset at start and every change of it
\* follows, in the same tick, an actuator call whose two commands succeeded.
C6_ChangeOnlyAfterSuccess ==
    /\ pc \in {"check", "install"} => last_temp_diff = None
    /\ last_temp_diff # last_before => ActuatorSucceeded

\* C6 amended: last_temp_diff is unset at start and every change of it
\* follows, in the same tick, an actuator call (the mode-set command was
\* issued), whether or not that call's commands succeeded; the new value is
\* the gradient the tick read.
C6_ChangeOnlyAfterActuatorCall ==
    /\ pc \in {"check", "install"} => last_temp_diff = None
    /\ last_temp_diff # last_before =>
         /\ pc = "sleep"
         /\ ModeIssued
         /\ temp_diff # None
         /\ last_temp_diff = temp_diff

C6_Witness ==
    pc = "sleep" /\ last_temp_diff # last_before /\ ActuatorFailed /\ DutyIssued

\* C7 as stated: when the mode-set command fails, the duty-set command is
\* still issued in the same call.
C7_DutyAfterFailedMode ==
    (pc = "sleep" /\ ModeFailed) => DutyIssued

\* C7 amended: a failed mode-set command ends the call: the duty-set command
\* is issued only right after a mode-set command of the same call that
\* succeeded, so a call reports at most one failure.
C7_ModeFailureGatesDuty ==
    /\ \A j \in 1..Len(cmds) :
         cmds[j].cmd = "duty" => (j > 1 /\ cmds[j - 1].cmd = "mode" /\ cmds[j - 1].ok)
    /\ ModeFailed => ~DutyIssued
    /\ Cardinality({i \in 1..Len(cmds) : cmds[i].cmd \in {"mode", "duty"} /\ ~cmds[i].ok}) <= 1

C7_Witness == pc = "sleep" /\ ModeFailed /\ Len(cmds) = 2

\* C8: the installation runs only after a failed presence check; the loop
\* runs exactly when the presence check or the installation succeeded; when
\* both failed no ipmitool command was ever issued and the process has ended.
C8_StartupGate ==
    /\ installed # "notrun" => present = "fail"
    /\ InLoop <=> (present = "ok" \/ installed = "ok")
    /\ any_cmd => InLoop
    /\ (present = "fail" /\ installed = "fail") =>
         /\ pc = "exited"
         /\ ~any_cmd
         /\ cmds = <<>>
         /\ ~ENABLED Next

C8_Witness == present = "fail" /\ installed = "fail" /\ pc = "exited"

\* C9 as stated: when presence check and installation both fail the process
\* ends with a non-zero exit status, and it ends in no other way.
C9_NonZeroExit ==
    /\ (present = "fail" /\ installed = "fail") =>
         (pc = "exited" /\ exit_code # None /\ exit_code[1] # 0)
    /\ pc = "exited" => (present = "fail" /\ installed = "fail")

\* C10: once the loop runs it never leaves it, every tick reaches the sleep
\* whatever failed in it, and after the sleep a next tick begins.
C10_LoopNeverStops ==
    /\ [][InLoop => InLoop']_vars
    /\ InLoop ~> (pc = "sleep")
    /\ (pc = "sleep") ~> (pc = "read")

C10_Witness == pc = "sleep" /\ reading.error /\ last_temp_diff # None

\* C11: the percentage set_fan_speed recomputes from the speed that
\* calculate_fan_speed returned is the policy's percentage again; every
\* duty-set command carries 30, 40 or 100, written 1e, 28 or 64, and the
\* clamp leaves the recomputed value as it is.
C11_ScalingRoundTrip ==
    /\ speed # None =>
         /\ RawPercentage(speed[1]) = policy.speed_percentage
         /\ SpeedPercentage(speed[1]) = RawPercentage(speed[1])
    /\ \A i \in 1..Len(cmds) :
         cmds[i].cmd = "duty" =>
           /\ cmds[i].arg = policy.speed_percentage
           /\ \/ cmds[i].arg = 30 /\ cmds[i].hex = <<"1", "e">>
              \/ cmds[i].arg = 40 /\ cmds[i].hex = <<"2", "8">>
              \/ cmds[i].arg = 100 /\ cmds[i].hex = <<"6", "4">>

C11_Witness ==
    /\ pc = "sleep"
    /\ DutyIssued
    /\ cmds[Len(cmds)].hex = <<"1", "e">>
    /\ temp_diff # None /\ temp_diff[1] < 0

\* the duty cycle the policy table of the specification gives a gradient
TableDuty(g) == IF g < 10 THEN 30 ELSE IF g <= 15 THEN 40 ELSE 100

\* C12: a tick whose read succeeded with inlet i and outlet o has the
\* gradient o - i, and when that differs from last_temp_diff as the tick found
\* it (or that was unset) the tick has called set_fan_speed with the speed of
\* the table's duty cycle for o - i (20/25 gives 30, 20/32 gives 40, 20/37
\* gives 100); a duty-set command of the tick carries that duty cycle.
C12_ChangedGradientActuates ==
    (pc = "sleep" /\ ~reading.error /\ reading.inlet_temp # None /\ reading.exhaust_temp # None) =>
        LET i == reading.inlet_temp[1]
            o == reading.exhaust_temp[1]
        IN  /\ temp_diff = Some(o - i)
            /\ (last_before = None \/ Some(o - i) # last_before) =>
                 /\ ModeIssued
                 /\ speed # None
                 /\ SpeedPercentage(speed[1]) = TableDuty(o - i)
                 /\ \A k \in 1..Len(cmds) : cmds[k].cmd = "duty" => cmds[k].arg = TableDuty(o - i)
                 /\ (i = 20 /\ o = 25) => SpeedPercentage(speed[1]) = 30
                 /\ (i = 20 /\ o = 32) => SpeedPercentage(speed[1]) = 40
                 /\ (i = 20 /\ o = 37) => SpeedPercentage(speed[1]) = 100

C12_Witness ==
    /\ pc = "sleep"
    /\ reading.inlet_temp = Some(20)
    /\ reading.exhaust_temp = Some(32)
    /\ last_before # None
    /\ DutyIssued
    /\ cmds[Len(cmds)].arg = 40

\* lines of a response that the scan reads as inlet, or as outlet, and whose
\* value parses; a line counts for the first label the scan finds in it
InletMatches(out) == {k \in 1..Len(out) : out[k].inlet /\ out[k].value # None}
OutletMatches(out) == {k \in 1..Len(out) : ~out[k].inlet /\ out[k].exhaust /\ out[k].value # None}
LastOf(S) == CHOOSE m \in S : \A k \in S : k <= m

\* C13: the sensor reader returns a gradient exactly when the transport
\* returned a response with at least one inlet line and at least one outlet
\* line whose value parses, and the gradient is then outlet minus inlet; it
\* returns none when no line carries the inlet label or none carries the
\* outlet label, whatever else the response holds and in whatever order.
C13_ReaderSucceedsIff ==
    pc = "parsed" =>
        LET out == response.output
            ok == ~response.error /\ InletMatches(out) # {} /\ OutletMatches(out) # {}
        IN  /\ (temp_diff # None) <=> ok
            /\ ok => temp_diff = Some(reading.exhaust_temp[1] - reading.inlet_temp[1])
            /\ (\A k \in 1..Len(out) : ~out[k].inlet) => temp_diff = None
            /\ (\A k \in 1..Len(out) : ~out[k].exhaust) => temp_diff = None
            /\ response.error => temp_diff = None

C13_Witness ==
    /\ pc = "parsed"
    /\ Len(response.output) = 3
    /\ response.output[1].exhaust /\ ~response.output[1].inlet
    /\ ~response.output[2].exhaust /\ ~response.output[2].inlet
    /\ response.output[3].inlet
    /\ temp_diff = Some(12)

\* C14: when several lines of a response match the same label, the reader
\* keeps the value of the last of them in scan order, so the gradient is the
\* last outlet value minus the last inlet value.
C14_LastMatchWins ==
    (pc = "parsed" /\ ~response.error) =>
        LET out == response.output
        IN  /\ InletMatches(out) # {} => reading.inlet_temp = out[LastOf(InletMatches(out))].value
            /\ OutletMatches(out) # {} => reading.exhaust_temp = out[LastOf(OutletMatches(out))].value
            /\ (InletMatches(out) # {} /\ OutletMatches(out) # {}) =>
                 temp_diff = Some(out[LastOf(OutletMatches(out))].value[1]
                                  - out[LastOf(InletMatches(out))].value[1])

C14_Witness ==
    /\ pc = "parsed"
    /\ Len(response.output) = 3
    /\ Cardinality(InletMatches(response.output)) = 2
    /\ response.output[1].value = Some(25)
    /\ response.output[2].value = Some(20)
    /\ response.output[3].value = Some(37)
    /\ temp_diff = Some(17)

\* C15: the sensor query is the first command of a tick and precedes every
\* actuation command; every call of set_fan_speed issues the manual-mode
\* command first, whatever the state, and a duty-set command only after it.
C15_CommandOrder ==
    /\ cmds # <<>> => cmds[1].cmd = "sensor"
    /\ \A j \in 1..Len(cmds) :
         cmds[j].cmd = "duty" => \E i \in 1..(j - 1) : cmds[i].cmd = "mode"
    /\ (pc = "duty_set" \/ (pc = "sleep" /\ speed # None)) =>
         (Len(cmds) >= 2 /\ cmds[2].cmd = "mode")

C15_Witness ==
    /\ pc = "sleep"
    /\ Len(cmds) = 3
    /\ \A i \in 1..3 : cmds[i].ok
    /\ cmds[3].arg = 100
    /\ last_before # None

\* C16: a tick issues at most one sensor query, one manual-mode command and
\* one duty-set command, failed or not, and its sensor query comes before all
\* its other commands: no command of a tick follows the next tick's query.
C16_NoRetries ==
    /\ \A kind \in {"sensor", "mode", "duty"} :
         Cardinality({i \in 1..Len(cmds) : cmds[i].cmd = kind}) <= 1
    /\ \A i \in 1..Len(cmds) : cmds[i].cmd = "sensor" => i = 1
    /\ pc = "read" => cmds = <<>>

C16_Witness ==
    /\ pc = "sleep"
    /\ Len(cmds) = 3
    /\ ~cmds[3].ok
    /\ cmds[3].cmd = "duty"

\* C17: at the end of every tick last_temp_diff is the gradient of the most
\* recent successful read of the run (this tick's, or else the latest earlier
\* one), and it is unset exactly when no read has succeeded yet.
C17_LastIsLatestRead ==
    /\ pc = "sleep" => last_temp_diff = (IF temp_diff # None THEN temp_diff ELSE prev_read)
    /\ pc = "read" => last_temp_diff = prev_read

C17_Witness ==
    /\ pc = "sleep"
    /\ ActuatorFailed
    /\ prev_read # None
    /\ last_temp_diff # prev_read

\* C18: after a tick whose actuation failed for gradient g, a tick that reads
\* g again, or reads nothing, issues no manual-mode or duty-set command.
C18_NoRetryOnSameGradient ==
    (stale # None /\ (temp_diff = None \/ temp_diff = stale)) => ~Actuated

\* a later tick reads the same gradient while the chassis still runs the duty
\* cycle of an earlier gradient
C18_Witness ==
    /\ pc = "sleep"
    /\ stale # None
    /\ temp_diff = stale
    /\ device_duty # None
    /\ device_duty # Some(TableDuty(stale[1]))

====
